---- MODULE Spec2Model ----
(***************************************************************************)
(* A model of src/resources/io_managers.py: the Delta table IO managers    *)
(* (GenericInputDeltaIOManager and its three readers) and the directory    *)
(* JSON/text IO manager (GenericJSONIOManager, JSONTextIOManager).         *)
(*                                                                         *)
(* Strings the code builds or inspects are sequences of tokens; a table is *)
(* a bag of rows (a function from rows to multiplicities); a directory is  *)
(* a function from file names to file contents.                            *)
(***************************************************************************)
EXTENDS Integers, Sequences, FiniteSets, TLC

VARIABLES
    store,      \* Delta storage: path -> [exists, rows]
    tctx,       \* the OutputContext of the latest table handle_output: metadata, log
    tlast,      \* the latest table call (handle_output or load_input) and what it did
    meta,       \* definition_metadata of the asset: primary_keys, partition_cols
    rw,         \* two concurrent handle_output invocations: writer -> its position and locals
    worder,     \* the writers in the order their storage writes completed
    pkeys,      \* the primary_keys list handed to _get_merge_predicates
    predout,    \* what _get_merge_predicates did with it
    pctx,       \* a context handed to _get_directory_path: base path, asset key, partition keys
    pdir,       \* the directory resolved for it, for an output and for an input context
    fs,         \* the file system: directory -> [exists, files]
    clock,      \* the UTC clock, in ticks
    jctx,       \* the context of the latest JSON/text call: metadata, log
    jlast       \* the latest JSON/text call (handle_output or load_input) and what it did

tvars == <<store, tctx, tlast, meta>>
rvars == <<rw, worder>>
qvars == <<pkeys, predout, pctx, pdir>>
jvars == <<fs, clock, jctx, jlast>>

vars == <<tvars, rvars, qvars, jvars>>

(***************************************************************************)
(* Bounds of the model.                                                    *)
(***************************************************************************)
MaxObjRows == 2      \* rows of a DataFrame handed to handle_output
MaxTableRows == 3    \* rows of a stored table

(***************************************************************************)
(* Rows, DataFrames and bags.                                              *)
(***************************************************************************)
Null == "NULL"
Columns == {"id", "val"}
Row(id, val) == [id |-> id, val |-> val]
RowList == <<Row("k1", "a"), Row("k1", "b"), Row("k2", "a"), Row(Null, "a")>>
Rows == {RowList[i] : i \in 1..Len(RowList)}

RECURSIVE SumTo(_, _)
SumTo(f, n) == IF n = 0 THEN 0 ELSE f[RowList[n]] + SumTo(f, n - 1)

\* The sum of f over the rows of S.
SumSet(S, f) == SumTo([r \in Rows |-> IF r \in S THEN f[r] ELSE 0], Len(RowList))

Size(b) == SumTo(b, Len(RowList))
EmptyBag == [r \in Rows |-> 0]
Datasets == {b \in [Rows -> 0..MaxObjRows] : Size(b) <= MaxObjRows}

\* The in-memory representations handle_output may be handed.
AcceptedTypes == {"pl.LazyFrame", "pd.DataFrame", "pl.DataFrame"}
OtherTypes == {"dict"}
Objects ==
    [type : AcceptedTypes, rows : Datasets] \cup [type : OtherTypes, rows : {EmptyBag}]

(***************************************************************************)
(* _get_metadata_values: the declared list, [] when the key is absent.     *)
(***************************************************************************)
MetadataChoices ==
    { [keys |-> ks, primary_keys |-> pk, partition_cols |-> <<"val">>] :
        ks \in SUBSET {"primary_keys", "partition_cols"},
        pk \in {<<"id">>, <<"id", "val">>} }

get_metadata_values(definition_metadata, metadata_key) ==
    IF metadata_key \in definition_metadata.keys
    THEN definition_metadata[metadata_key]
    ELSE <<>>

(***************************************************************************)
(* _get_merge_predicates.  The result is [raised, value]; value is the     *)
(* predicate as a token sequence.                                          *)
(***************************************************************************)
PredicateOf(col) == <<"s.", col, " = ", "t.", col>>

RECURSIVE Join(_, _)
Join(sep, parts) ==
    IF Len(parts) = 0 THEN <<>>
    ELSE IF Len(parts) = 1 THEN parts[1]
    ELSE parts[1] \o sep \o Join(sep, Tail(parts))

\* The comparisons joined with " OR ".
get_merge_predicates_or(primary_keys) ==
    IF Len(primary_keys) = 0
    THEN [raised |-> "ValueError", value |-> <<>>]
    ELSE [raised |-> "",
          value |-> Join(<<" OR ">>,
                         [i \in 1..Len(primary_keys) |-> PredicateOf(primary_keys[i])])]

get_merge_predicates(primary_keys) ==
    IF Len(primary_keys) = 0
    THEN [raised |-> "ValueError", value |-> <<>>]
    ELSE [raised |-> "",
          value |-> Join(<<" AND ">>,
                         [i \in 1..Len(primary_keys) |-> PredicateOf(primary_keys[i])])]

(***************************************************************************)
(* Path resolution.  A path is the parsed URL: scheme, host and the path   *)
(* segments, each a sequence of characters; a trailing slash is a last     *)
(* empty segment.                                                          *)
(***************************************************************************)
PathAdd(p, segment) ==
    LET segs == IF Len(p.segs) > 0 /\ p.segs[Len(p.segs)] = <<>>
                THEN SubSeq(p.segs, 1, Len(p.segs) - 1)
                ELSE p.segs
    IN  [p EXCEPT !.segs = Append(segs, segment)]

RECURSIVE AddAll(_, _)
AddAll(p, segments) ==
    IF Len(segments) = 0 THEN p
    ELSE AddAll(PathAdd(p, segments[1]), Tail(segments))

get_storage_path(output_base_path, asset_key) == AddAll(output_base_path, asset_key)

TableBasePath == [scheme |-> "s3", host |-> "bucket", segs |-> << <<"l">>, <<>> >>]
TableAssetKey == << <<"s">>, <<"e", "v">> >>
TablePaths == {get_storage_path(TableBasePath, TableAssetKey)}

(***************************************************************************)
(* The storage engine's three write modes.                                 *)
(***************************************************************************)
SqlEq(x, y) == x # Null /\ y # Null /\ x = y

\* The merge predicate "s.c1 = t.c1 AND ..." evaluated on a source row s and a
\* target row t.
EvalPredicate(pred, s, t) ==
    \A i \in 0..(((Len(pred) + 1) \div 6) - 1) :
        SqlEq(s[pred[6 * i + 2]], t[pred[6 * i + 5]])

Matches(pred, S, t) == {s \in Rows : S[s] > 0 /\ EvalPredicate(pred, s, t)}
SourceMatched(pred, T, s) == \E t \in Rows : T[t] > 0 /\ EvalPredicate(pred, s, t)
MultiMatch(pred, T, S) == \E t \in Rows : T[t] > 0 /\ SumSet(Matches(pred, S, t), S) > 1

\* A merge that inserts every source row and updates none.
MergeInsertOnly(pred, T, S) == [r \in Rows |-> T[r] + S[r]]

\* when_matched_update_all + when_not_matched_insert_all: the join of target and
\* source on the predicate.
MergeJoin(pred, T, S) ==
    [r \in Rows |->
        (IF T[r] > 0 /\ Matches(pred, S, r) = {} THEN T[r] ELSE 0)
      + (IF S[r] > 0
         THEN S[r] * SumSet({t \in Rows : T[t] > 0 /\ EvalPredicate(pred, r, t)}, T)
         ELSE 0)
      + (IF S[r] > 0 /\ ~SourceMatched(pred, T, r) THEN S[r] ELSE 0)]

\* The outcomes of a merge: the joined table; when several source rows match one
\* target row the engine may instead reject the merge.
MergeOutcomes(pred, T, S) ==
    {[status |-> "ok", rows |-> MergeJoin(pred, T, S)]}
    \cup (IF MultiMatch(pred, T, S)
          THEN {[status |-> "MergeError", rows |-> T]}
          ELSE {})

\* mode="append" in place of mode="overwrite".
AppendRows(T, S) == [r \in Rows |-> T[r] + S[r]]

\* mode="overwrite": the table holds the written rows and nothing else.
OverwriteRows(T, S) == S

(***************************************************************************)
(* GenericInputDeltaIOManager.handle_output                                *)
(***************************************************************************)
\* A table is never merged into: every write overwrites.
WriteModeNeverMerge(is_delta, primary_keys, partition_cols) ==
    IF Len(partition_cols) > 0 THEN "overwrite_partitioned" ELSE "overwrite"

\* The partition branch tested before the merge branch.
WriteModePartitionFirst(is_delta, primary_keys, partition_cols) ==
    IF Len(partition_cols) > 0 THEN "overwrite_partitioned"
    ELSE IF is_delta /\ Len(primary_keys) > 0 THEN "merge"
    ELSE "overwrite"

WriteMode(is_delta, primary_keys, partition_cols) ==
    IF is_delta /\ Len(primary_keys) > 0 THEN "merge"
    ELSE IF Len(partition_cols) > 0 THEN "overwrite_partitioned"
    ELSE "overwrite"

NoMetadata == [published |-> FALSE, row_count |-> 0, n_cols |-> 0]
OutputMetadata(rows) ==
    [published |-> TRUE, row_count |-> Size(rows), n_cols |-> Cardinality(Columns)]

ModeLog(mode) == IF mode = "overwrite" THEN "warning" ELSE "info"

\* What one write call in the given mode may leave at the path.
WriteOutcomes(mode, primary_keys, T, S) ==
    IF mode = "merge"
    THEN MergeOutcomes(get_merge_predicates(primary_keys).value, T, S)
    ELSE {[status |-> "ok", rows |-> OverwriteRows(T, S)]}

NoCall ==
    [op |-> "none", status |-> "none", path |-> get_storage_path(TableBasePath, TableAssetKey),
     mode |-> "none", obj |-> EmptyBag, before |-> [exists |-> FALSE, rows |-> EmptyBag],
     writes |-> <<>>, predicate |-> <<>>, result |-> EmptyBag]

handle_output_TypeError(obj) ==
    /\ obj.type \notin AcceptedTypes
    /\ tlast' = [NoCall EXCEPT !.op = "handle_output", !.status = "TypeError",
                               !.before = store[NoCall.path]]
    /\ tctx' = [metadata |-> NoMetadata, log |-> <<>>]
    /\ UNCHANGED <<store, meta, rvars, qvars, jvars>>

handle_output_write(obj) ==
    /\ obj.type \in AcceptedTypes
    /\ LET rows == obj.rows
           path == get_storage_path(TableBasePath, TableAssetKey)
           is_delta == store[path].exists
           primary_keys == get_metadata_values(meta, "primary_keys")
           partition_cols == get_metadata_values(meta, "partition_cols")
           mode == WriteMode(is_delta, primary_keys, partition_cols)
       IN  \E out \in WriteOutcomes(mode, primary_keys, store[path].rows, rows) :
             /\ Size(out.rows) <= MaxTableRows
             /\ store' = [store EXCEPT ![path] =
                            IF out.status = "ok"
                            THEN [exists |-> TRUE, rows |-> out.rows]
                            ELSE @]
             /\ tctx' = [metadata |-> OutputMetadata(rows),
                         log |-> <<"debug", ModeLog(mode)>>]
             /\ tlast' = [op |-> "handle_output", status |-> out.status, path |-> path,
                          mode |-> mode, obj |-> rows, before |-> store[path],
                          writes |-> <<[mode |-> mode,
                                        partition_by |-> IF mode = "overwrite_partitioned"
                                                         THEN partition_cols ELSE <<>>]>>,
                          predicate |-> IF mode = "merge"
                                        THEN get_merge_predicates(primary_keys).value
                                        ELSE <<>>,
                          result |-> EmptyBag]
             /\ UNCHANGED <<meta, rvars, qvars, jvars>>

delta_handle_output ==
    \E obj \in Objects : handle_output_TypeError(obj) \/ handle_output_write(obj)

(***************************************************************************)
(* The three readers: scan_delta at the resolved path.                     *)
(***************************************************************************)
Readers == {"PandasDeltaIOManager", "PolarsLazyDeltaIOManager", "PolarsDeltaIOManager"}

delta_load_input ==
    \E reader \in Readers :
        LET path == get_storage_path(TableBasePath, TableAssetKey) IN
        /\ tlast' = IF store[path].exists
                    THEN [NoCall EXCEPT !.op = "load_input", !.status = "ok",
                                        !.before = store[path], !.result = store[path].rows]
                    ELSE [NoCall EXCEPT !.op = "load_input", !.status = "TableNotFoundError"]
        /\ UNCHANGED <<store, tctx, meta, rvars, qvars, jvars>>

(***************************************************************************)
(* GenericJSONIOManager._get_directory_path.  Partition keys are sequences *)
(* of characters, ordered as Python orders strings: by code point.         *)
(***************************************************************************)
Ord(c) ==
    CASE c = "-" -> 45
      [] c = "0" -> 48
      [] c = "_" -> 95
      [] c = "a" -> 97

RECURSIVE StrLess(_, _)
StrLess(a, b) ==
    IF Len(b) = 0 THEN FALSE
    ELSE IF Len(a) = 0 THEN TRUE
    ELSE IF Ord(a[1]) # Ord(b[1]) THEN Ord(a[1]) < Ord(b[1])
    ELSE StrLess(Tail(a), Tail(b))

\* sorted(): the keys in ascending order.
RECURSIVE Sorted(_)
Sorted(keys) ==
    IF keys = {} THEN <<>>
    ELSE LET least == CHOOSE k \in keys : \A other \in keys \ {k} : StrLess(k, other)
         IN  <<least>> \o Sorted(keys \ {least})

\* str.replace("-", "_")
ReplaceHyphens(key) == [i \in 1..Len(key) |-> IF key[i] = "-" THEN "_" ELSE key[i]]

\* The hyphens replaced in every key before the keys are sorted.
get_directory_path_replace_first(output_base_path, asset_key, asset_partition_keys) ==
    LET input_asset_partition_keys == Sorted({ReplaceHyphens(k) : k \in asset_partition_keys})
    IN  IF Len(input_asset_partition_keys) = 0
        THEN [raised |-> "IndexError", value |-> output_base_path]
        ELSE [raised |-> "",
              value |-> PathAdd(AddAll(output_base_path, asset_key),
                                input_asset_partition_keys[Len(input_asset_partition_keys)])]

get_directory_path(output_base_path, asset_key, asset_partition_keys) ==
    LET input_asset_partition_keys == Sorted(asset_partition_keys)
    IN  IF Len(input_asset_partition_keys) = 0
        THEN [raised |-> "IndexError", value |-> output_base_path]
        ELSE [raised |-> "",
              value |-> PathAdd(AddAll(output_base_path, asset_key),
                                ReplaceHyphens(
                                    input_asset_partition_keys[Len(input_asset_partition_keys)]))]

(***************************************************************************)
(* Inputs of the two pure functions.                                       *)
(***************************************************************************)
MaxPrimaryKeys == 3  \* length of a primary_keys list
MaxKeyLen == 2       \* characters of a partition key
MaxPartitionKeys == 2 \* partition keys in scope of one context

ColumnNames == {"id", "region", "date", "val"}
PrimaryKeyLists == UNION {[1..n -> ColumnNames] : n \in 0..MaxPrimaryKeys}

KeyChars == {"-", "0", "a"}
PartitionKeys == UNION {[1..n -> KeyChars] : n \in 1..MaxKeyLen}
RECURSIVE ScopesUpTo(_)
ScopesUpTo(n) ==
    IF n = 0 THEN {{}}
    ELSE ScopesUpTo(n - 1) \cup {P \cup {k} : P \in ScopesUpTo(n - 1), k \in PartitionKeys}
PartitionScopes == ScopesUpTo(MaxPartitionKeys)

BasePaths ==
    { [scheme |-> "s3", host |-> "bucket", segs |-> << <<"l">>, <<>> >>],
      [scheme |-> "s3", host |-> "bucket", segs |-> <<>>],
      [scheme |-> "", host |-> "", segs |-> << <<"d">> >>] }
AssetKeys == { << <<"b">> >>, << <<"b">>, <<"e", "v">> >>, << <<"e", "v">>, <<"b">> >> }

NoPred == [called |-> FALSE, raised |-> "", value |-> <<>>]
NoDir == [called |-> FALSE, raised |-> "", value |-> [scheme |-> "", host |-> "", segs |-> <<>>]]
NoPathContext ==
    [output_base_path |-> [scheme |-> "", host |-> "", segs |-> <<>>],
     asset_key |-> <<>>, asset_partition_keys |-> {}]

merge_predicates ==
    /\ ~predout.called
    /\ predout' = [called |-> TRUE,
                raised |-> get_merge_predicates(pkeys).raised,
                value |-> get_merge_predicates(pkeys).value]
    /\ UNCHANGED <<tvars, rvars, pkeys, pctx, pdir, jvars>>

resolve_directory(side) ==
    /\ ~pdir[side].called
    /\ LET r == get_directory_path(pctx.output_base_path, pctx.asset_key,
                                   pctx.asset_partition_keys)
       IN  pdir' = [pdir EXCEPT ![side] =
                       [called |-> TRUE, raised |-> r.raised, value |-> r.value]]
    /\ UNCHANGED <<tvars, rvars, pkeys, predout, pctx, jvars>>

(***************************************************************************)
(* Python values, json.dump and json.load.  A text is a sequence of tokens.*)
(***************************************************************************)
PyDict(kt, ks, v) == [type |-> "dict", kt |-> kt, ks |-> ks, v |-> v, text |-> <<>>]
PyStr(text) == [type |-> "str", kt |-> "", ks |-> "", v |-> "", text |-> text]
PyInt(v) == [type |-> "int", kt |-> "", ks |-> "", v |-> v, text |-> <<>>]
PyNone == [type |-> "None", kt |-> "", ks |-> "", v |-> "", text |-> <<>>]

Numbers == {"1", "2", "7"}
Whitespace == {" ", "\n"}

\* json.dump(obj, f, indent=2) of a one-entry dict: a key that is not a string
\* is written as its string.
JsonDump(obj) ==
    <<"{", "\n", " ", " ", "\"", obj.ks, "\"", ":", " ", obj.v, "\n", "}">>

StripWhitespace(text) == SelectSeq(text, LAMBDA tok : tok \notin Whitespace)

\* json.load: [raised, value]
JsonLoad(text) ==
    LET t == StripWhitespace(text) IN
    IF /\ Len(t) = 7
       /\ t[1] = "{" /\ t[2] = "\"" /\ t[4] = "\"" /\ t[5] = ":" /\ t[7] = "}"
       /\ t[6] \in Numbers
    THEN [raised |-> "", value |-> PyDict("str", t[3], t[6])]
    ELSE IF Len(t) = 1 /\ t[1] \in Numbers
    THEN [raised |-> "", value |-> PyInt(t[1])]
    ELSE [raised |-> "JSONDecodeError", value |-> PyNone]

(***************************************************************************)
(* The file system of the JSON/text manager.                               *)
(***************************************************************************)
TicksPerMinute == 2  \* clock ticks in one minute
MaxClock == 3        \* the last tick of the clock

JsonExt == <<".", "j", "s", "o", "n">>
TxtExt == <<".", "t", "x", "t">>

Digit(n) == CASE n = 0 -> "0" [] n = 1 -> "1" [] n = 2 -> "2" [] n = 3 -> "3"
              [] n = 4 -> "4" [] n = 5 -> "5" [] n = 6 -> "6" [] n = 7 -> "7"
              [] n = 8 -> "8" [] n = 9 -> "9"

\* now.strftime("%Y%m%d_%H%M"): the clock cut to the minute.
Strftime(now) ==
    LET minute == now \div TicksPerMinute IN <<"T", Digit(minute \div 10), Digit(minute % 10)>>

StampNames == {Strftime(t) \o JsonExt : t \in 0..MaxClock}

\* Files some other program may have left in a directory.
ExternalFiles ==
    { [name |-> <<"x">> \o JsonExt, data |-> <<"{", "\"", "v", "\"", ":", "1", "}">>],
      [name |-> <<"y">> \o TxtExt, data |-> <<"hello">>],
      [name |-> <<"z", ".", "c", "s", "v">>, data |-> <<"c", ",", "d">>],
      [name |-> JsonExt, data |-> <<"{", "\"", "v", "\"", ":", "2", "}">>],
      [name |-> <<"w">> \o JsonExt, data |-> <<"not json">>] }
ExternalNames == {f.name : f \in ExternalFiles}
FileNames == StampNames \cup ExternalNames

NoFile == [present |-> FALSE, data |-> <<>>]
NoDirectory == [exists |-> FALSE, files |-> [n \in FileNames |-> NoFile]]
Entries(d) == {n \in FileNames : d.files[n].present}

JsonBasePath == [scheme |-> "", host |-> "", segs |-> << <<"d">> >>]
JsonAssetKey == << <<"b">>, <<"e", "v">> >>
JsonPartitionKeys == {<<"a", "-">>, <<"a", "0">>}
JsonScopes == SUBSET JsonPartitionKeys
JsonDirs ==
    {get_directory_path(JsonBasePath, JsonAssetKey, P).value : P \in JsonScopes \ {{}}}

\* _get_fs: the protocol of the file system behind a path.
get_fs(path) == IF path.scheme \in {"", "file"} THEN "file" ELSE path.scheme

EndsWith(name, ext) ==
    Len(name) >= Len(ext) /\ SubSeq(name, Len(name) - Len(ext) + 1, Len(name)) = ext

\* The entries of a directory a glob pattern "*<ext>" matches.
Glob(d, ext) == {n \in Entries(d) : EndsWith(n, ext)}

\* A pattern "*": every entry of the directory is listed.
list_directory_files_all(fsys, path, ext) ==
    IF ~fsys[path].exists THEN {} ELSE Entries(fsys[path])

\* _list_directory_files
list_directory_files(fsys, path, ext) ==
    IF get_fs(path) = "file" THEN Glob(fsys[path], ext)
    ELSE IF ~fsys[path].exists THEN {}
    ELSE Glob(fsys[path], ext)

\* Path(file_path).suffix.lower()
LowerChar(c) ==
    CASE c = "J" -> "j" [] c = "S" -> "s" [] c = "O" -> "o" [] c = "N" -> "n"
      [] c = "T" -> "t" [] c = "X" -> "x" [] OTHER -> c

LastDot(name) ==
    LET dots == {i \in 1..Len(name) : name[i] = "."}
    IN  IF dots = {} THEN 0 ELSE CHOOSE i \in dots : \A j \in dots : j <= i

Suffix(name) ==
    LET i == LastDot(name) IN
    IF i > 1 /\ i < Len(name)
    THEN [k \in 1..(Len(name) - i + 1) |-> LowerChar(name[i + k - 1])]
    ELSE <<>>

\* The orders in which a listing may return a set of entries.
Orderings(S) ==
    {f \in [1..Cardinality(S) -> S] : \A i, j \in 1..Cardinality(S) : f[i] = f[j] => i = j}

(***************************************************************************)
(* JSONTextIOManager.handle_output                                         *)
(***************************************************************************)
Payloads ==
    { PyDict("str", "a", "1"), PyDict("int", "1", "2"),
      PyStr(<<"hello">>), PyStr(<<"7">>), PyInt("7") }

NoJsonMetadata == [published |-> FALSE, file_name |-> <<>>, file_type |-> "", timestamp |-> <<>>]
NoJsonCall ==
    [op |-> "none", status |-> "none", scope |-> {}, dir |-> JsonBasePath,
     name |-> <<>>, payload |-> PyNone, result |-> <<>>]

\* makedirs before the type of the payload is looked at.
MakeDirs(fsys, path) ==
    IF fsys[path].exists THEN fsys ELSE [fsys EXCEPT ![path].exists = TRUE]

\* open(file_path, "w") and write: the file is created or replaced.
WriteFile(fsys, path, name, data) ==
    [fsys EXCEPT ![path].files[name] = [present |-> TRUE, data |-> data]]

json_handle_output_IndexError ==
    \E scope \in JsonScopes, obj \in Payloads :
        /\ get_directory_path(JsonBasePath, JsonAssetKey, scope).raised # ""
        /\ jlast' = [NoJsonCall EXCEPT !.op = "handle_output", !.status = "IndexError",
                                       !.scope = scope, !.payload = obj]
        /\ jctx' = [metadata |-> NoJsonMetadata, log |-> <<>>]
        /\ UNCHANGED <<tvars, rvars, qvars, fs, clock>>

json_handle_output_TypeError ==
    \E scope \in JsonScopes, obj \in Payloads :
        /\ get_directory_path(JsonBasePath, JsonAssetKey, scope).raised = ""
        /\ obj.type \notin {"dict", "str"}
        /\ LET directory_path == get_directory_path(JsonBasePath, JsonAssetKey, scope).value IN
           /\ fs' = MakeDirs(fs, directory_path)
           /\ jlast' = [NoJsonCall EXCEPT !.op = "handle_output", !.status = "TypeError",
                                          !.scope = scope, !.dir = directory_path,
                                          !.payload = obj]
           /\ jctx' = [metadata |-> NoJsonMetadata, log |-> <<>>]
        /\ UNCHANGED <<tvars, rvars, qvars, clock>>

json_handle_output_write ==
    \E scope \in JsonScopes, obj \in Payloads :
        /\ get_directory_path(JsonBasePath, JsonAssetKey, scope).raised = ""
        /\ obj.type \in {"dict", "str"}
        /\ LET directory_path == get_directory_path(JsonBasePath, JsonAssetKey, scope).value
               string_date == Strftime(clock)
               file_name == string_date \o JsonExt
               data == IF obj.type = "dict" THEN JsonDump(obj) ELSE obj.text
           IN
           /\ fs' = WriteFile(MakeDirs(fs, directory_path), directory_path, file_name, data)
           /\ jlast' = [NoJsonCall EXCEPT !.op = "handle_output", !.status = "ok",
                                          !.scope = scope, !.dir = directory_path,
                                          !.name = file_name, !.payload = obj]
           /\ jctx' = [metadata |-> [published |-> TRUE, file_name |-> file_name,
                                     file_type |-> IF obj.type = "str" THEN "text" ELSE "",
                                     timestamp |-> string_date],
                       log |-> <<>>]
        /\ UNCHANGED <<tvars, rvars, qvars, clock>>

tick ==
    /\ clock < MaxClock
    /\ clock' = clock + 1
    /\ UNCHANGED <<tvars, rvars, qvars, fs, jctx, jlast>>

(***************************************************************************)
(* JSONTextIOManager.load_input                                            *)
(***************************************************************************)
\* The loop over all_files: [status, result, log]; a file that json.load
\* rejects ends the loop and the call.
RECURSIVE LoadFiles(_, _, _)
LoadFiles(d, all_files, acc) ==
    IF Len(all_files) = 0 THEN acc
    ELSE LET file_path == all_files[1]
             file_extension == Suffix(file_path)
             data == d.files[file_path].data
         IN  IF file_extension = JsonExt
             THEN IF JsonLoad(data).raised # ""
                  THEN [acc EXCEPT !.status = JsonLoad(data).raised]
                  ELSE LoadFiles(d, Tail(all_files),
                                 [acc EXCEPT !.result = Append(@, JsonLoad(data).value),
                                             !.log = Append(@, "debug")])
             ELSE IF file_extension = TxtExt
             THEN LoadFiles(d, Tail(all_files),
                            [acc EXCEPT !.result = Append(@, PyStr(data)),
                                        !.log = Append(@, "debug")])
             ELSE LoadFiles(d, Tail(all_files), [acc EXCEPT !.log = Append(@, "warning")])

json_load_input ==
    \E scope \in JsonScopes :
        LET dp == get_directory_path(JsonBasePath, JsonAssetKey, scope)
            directory_path == dp.value
        IN
        IF dp.raised # ""
        THEN /\ jlast' = [NoJsonCall EXCEPT !.op = "load_input", !.status = dp.raised,
                                            !.scope = scope]
             /\ jctx' = [metadata |-> NoJsonMetadata, log |-> <<>>]
             /\ UNCHANGED <<tvars, rvars, qvars, fs, clock>>
        ELSE IF ~fs[directory_path].exists
        THEN /\ jlast' = [NoJsonCall EXCEPT !.op = "load_input",
                                            !.status = "ValueError: Directory not found",
                                            !.scope = scope, !.dir = directory_path]
             /\ jctx' = [metadata |-> NoJsonMetadata, log |-> <<>>]
             /\ UNCHANGED <<tvars, rvars, qvars, fs, clock>>
        ELSE \E jsons \in Orderings(list_directory_files(fs, directory_path, JsonExt)),
                txts \in Orderings(list_directory_files(fs, directory_path, TxtExt)) :
               LET all_files == jsons \o txts
                   loaded == LoadFiles(fs[directory_path], all_files,
                                       [status |-> "ok", result |-> <<>>, log |-> <<>>])
               IN
               /\ jlast' =
                    IF Len(all_files) = 0
                    THEN [NoJsonCall EXCEPT !.op = "load_input",
                                            !.status = "ValueError: No compatible files found",
                                            !.scope = scope, !.dir = directory_path]
                    ELSE [NoJsonCall EXCEPT !.op = "load_input", !.status = loaded.status,
                                            !.scope = scope, !.dir = directory_path,
                                            !.result = IF loaded.status = "ok"
                                                       THEN loaded.result ELSE <<>>]
               /\ jctx' = [metadata |-> NoJsonMetadata,
                           log |-> IF Len(all_files) = 0 THEN <<>> ELSE loaded.log]
               /\ UNCHANGED <<tvars, rvars, qvars, fs, clock>>

(***************************************************************************)
(* Initial states and specifications.                                      *)
(***************************************************************************)
Writers == {1, 2}
NoWriter ==
    [pc |-> "start", obj |-> EmptyBag, is_delta |-> FALSE, mode |-> "none",
     status |-> "none", checkedAt |-> 0, metadata |-> NoMetadata]

TableIdle ==
    /\ store = [p \in TablePaths |-> [exists |-> FALSE, rows |-> EmptyBag]]
    /\ tctx = [metadata |-> NoMetadata, log |-> <<>>]
    /\ tlast = NoCall
    /\ rw = [w \in Writers |-> NoWriter]
    /\ worder = <<>>

PureIdle ==
    /\ predout = NoPred
    /\ pdir = [side \in {"output", "input"} |-> NoDir]

JsonIdle ==
    /\ clock = 0
    /\ jctx = [metadata |-> NoJsonMetadata, log |-> <<>>]
    /\ jlast = NoJsonCall

TableInit ==
    /\ TableIdle
    /\ meta \in MetadataChoices
    /\ PureIdle /\ pkeys = <<>> /\ pctx = NoPathContext
    /\ JsonIdle /\ fs = [d \in JsonDirs |-> NoDirectory]

TableNext == delta_handle_output \/ delta_load_input

SpecTable == TableInit /\ [][TableNext]_vars

(***************************************************************************)
(* Two handle_output invocations on one path, as the orchestrator may run  *)
(* them: each is the existence check (lines 128-153) followed, in a later  *)
(* step, by the write (lines 155-195).  Nothing is held in between.        *)
(***************************************************************************)
race_reject(w) ==
    /\ rw[w].pc = "start"
    /\ \E obj \in Objects :
          /\ obj.type \notin AcceptedTypes
          /\ rw' = [rw EXCEPT ![w] = [@ EXCEPT !.pc = "done", !.status = "TypeError"]]
    /\ UNCHANGED <<tvars, worder, qvars, jvars>>

race_check(w) ==
    /\ rw[w].pc = "start"
    /\ \E obj \in Objects :
          /\ obj.type \in AcceptedTypes
          /\ LET path == get_storage_path(TableBasePath, TableAssetKey) IN
             rw' = [rw EXCEPT ![w] = [@ EXCEPT !.pc = "checked", !.obj = obj.rows,
                                                !.metadata = OutputMetadata(obj.rows),
                                                !.is_delta = store[path].exists,
                                                !.checkedAt = Len(worder)]]
    /\ UNCHANGED <<tvars, worder, qvars, jvars>>

race_write(w) ==
    /\ rw[w].pc = "checked"
    /\ LET path == get_storage_path(TableBasePath, TableAssetKey)
           primary_keys == get_metadata_values(meta, "primary_keys")
           partition_cols == get_metadata_values(meta, "partition_cols")
           mode == WriteMode(rw[w].is_delta, primary_keys, partition_cols)
       IN  \E out \in WriteOutcomes(mode, primary_keys, store[path].rows, rw[w].obj) :
             /\ Size(out.rows) <= MaxTableRows
             /\ store' = [store EXCEPT ![path] =
                            IF out.status = "ok"
                            THEN [exists |-> TRUE, rows |-> out.rows]
                            ELSE @]
             /\ rw' = [rw EXCEPT ![w] = [@ EXCEPT !.pc = "done", !.mode = mode,
                                                  !.status = out.status]]
             /\ worder' = Append(worder, w)
    /\ UNCHANGED <<tctx, tlast, meta, qvars, jvars>>

RaceNext == \E w \in Writers : race_reject(w) \/ race_check(w) \/ race_write(w)

SpecRace == TableInit /\ [][RaceNext]_vars

\* _get_merge_predicates on every primary_keys list.
PredInit ==
    /\ TableIdle /\ meta = [keys |-> {}, primary_keys |-> <<"id">>, partition_cols |-> <<"val">>]
    /\ PureIdle /\ pkeys \in PrimaryKeyLists /\ pctx = NoPathContext
    /\ JsonIdle /\ fs = [d \in JsonDirs |-> NoDirectory]

SpecPred == PredInit /\ [][merge_predicates]_vars

\* _get_directory_path on every base path, asset key and partition scope.
PathInit ==
    /\ TableIdle /\ meta = [keys |-> {}, primary_keys |-> <<"id">>, partition_cols |-> <<"val">>]
    /\ PureIdle /\ pkeys = <<>>
    /\ pctx \in [output_base_path : BasePaths, asset_key : AssetKeys,
                  asset_partition_keys : PartitionScopes]
    /\ JsonIdle /\ fs = [d \in JsonDirs |-> NoDirectory]

PathNext == resolve_directory("output") \/ resolve_directory("input")

SpecPath == PathInit /\ [][PathNext]_vars

\* The JSON/text manager on storage that starts empty.
JsonInit ==
    /\ TableIdle /\ meta = [keys |-> {}, primary_keys |-> <<"id">>, partition_cols |-> <<"val">>]
    /\ PureIdle /\ pkeys = <<>> /\ pctx = NoPathContext
    /\ JsonIdle /\ fs = [d \in JsonDirs |-> NoDirectory]

JsonNext ==
    \/ json_handle_output_IndexError
    \/ json_handle_output_TypeError
    \/ json_handle_output_write
    \/ json_load_input
    \/ tick

SpecJson == JsonInit /\ [][JsonNext]_vars

\* load_input on directories that hold files other programs left there.
ReadDir == get_directory_path(JsonBasePath, JsonAssetKey, {<<"a", "0">>}).value

ReadInit ==
    /\ TableIdle /\ meta = [keys |-> {}, primary_keys |-> <<"id">>, partition_cols |-> <<"val">>]
    /\ PureIdle /\ pkeys = <<>> /\ pctx = NoPathContext
    /\ JsonIdle
    /\ \E present \in SUBSET ExternalFiles, exists \in BOOLEAN :
          /\ (present # {} => exists)
          /\ fs = [d \in JsonDirs |->
                     IF d = ReadDir
                     THEN [exists |-> exists,
                           files |-> [n \in FileNames |->
                                        IF \E f \in present : f.name = n
                                        THEN [present |-> TRUE,
                                              data |-> (CHOOSE f \in present : f.name = n).data]
                                        ELSE NoFile]]
                     ELSE NoDirectory]

SpecRead == ReadInit /\ [][json_load_input]_vars

(***************************************************************************)
(* Properties of the table writer.                                         *)
(***************************************************************************)
DeclaredPK == get_metadata_values(meta, "primary_keys")
DeclaredPC == get_metadata_values(meta, "partition_cols")
TablePath == get_storage_path(TableBasePath, TableAssetKey)
Wrote == tlast.op = "handle_output" /\ tlast.status # "TypeError"

\* C1: an accepted handle_output performs exactly one storage write; it is a
\* merge iff the table existed and primary keys are declared, otherwise a
\* partitioned overwrite iff partition columns are declared, otherwise an
\* unpartitioned full overwrite.
C1_DecisionTable ==
    Wrote =>
        LET mergeable == tlast.before.exists /\ DeclaredPK # <<>> IN
        /\ Len(tlast.writes) = 1
        /\ tlast.writes[1].mode \in {"merge", "overwrite_partitioned", "overwrite"}
        /\ (tlast.writes[1].mode = "merge") <=> mergeable
        /\ (tlast.writes[1].mode = "overwrite_partitioned")
              <=> (~mergeable /\ DeclaredPC # <<>>)
        /\ (tlast.writes[1].mode = "overwrite")
              <=> (~mergeable /\ DeclaredPC = <<>>)
        /\ tlast.writes[1].partition_by =
              (IF ~mergeable /\ DeclaredPC # <<>> THEN DeclaredPC ELSE <<>>)

\* A merge took place although partition columns are declared too.
C1_Witness ==
    /\ Wrote
    /\ tlast.writes[1].mode = "merge"
    /\ DeclaredPC # <<>>
    /\ tlast.status = "ok"

\* Two rows agree on every declared key column.
KeyEq(s, t) == \A i \in 1..Len(DeclaredPK) : s[DeclaredPK[i]] = t[DeclaredPK[i]]
KeyMatched(S, t) == \E s \in Rows : S[s] > 0 /\ KeyEq(s, t)
Inserted(T, S) == {s \in Rows : S[s] > 0 /\ ~KeyMatched(T, s)}

\* The table after is the upsert of S into T.
Upsert(T, S, after) ==
    /\ \A t \in Rows : (T[t] > 0 /\ KeyMatched(S, t) /\ S[t] = 0) => after[t] = 0
    /\ \A t \in Rows : (T[t] > 0 /\ ~KeyMatched(S, t)) => after[t] = T[t]
    /\ \A s \in Rows : S[s] > 0 => after[s] >= 1
    /\ \A r \in Rows : after[r] > 0 => (T[r] > 0 \/ S[r] > 0)
    /\ Size(after) = Size(T) + SumSet(Inserted(T, S), S)

\* Every key value of the dataset is non-null and occurs in one row only.
DistinctKeys(S) ==
    /\ \A s \in Rows : S[s] > 0 =>
          /\ S[s] = 1
          /\ \A i \in 1..Len(DeclaredPK) : s[DeclaredPK[i]] # Null
    /\ \A s, u \in Rows : (S[s] > 0 /\ S[u] > 0 /\ KeyEq(s, u)) => s = u

Merged == Wrote /\ tlast.mode = "merge" /\ tlast.status = "ok"

\* The next step writes the dataset of the merge just made once more.
SameAgain ==
    /\ Merged
    /\ tlast'.op = "handle_output"
    /\ tlast'.status = "ok"
    /\ tlast'.obj = tlast.obj

\* C3 as stated: a merge write is an upsert of the dataset and writing the same
\* dataset once more leaves the table as it is, whatever the dataset.
C3_UpsertAnyDataset ==
    /\ [](Merged => Upsert(tlast.before.rows, tlast.obj, store[TablePath].rows))
    /\ [][SameAgain => store' = store]_vars

\* C3 amended: for a dataset whose declared key values are non-null and pairwise
\* distinct, a merge write is an upsert and writing it once more changes nothing.
C3_UpsertDistinctKeys ==
    /\ [](Merged /\ DistinctKeys(tlast.obj)
            => Upsert(tlast.before.rows, tlast.obj, store[TablePath].rows))
    /\ [][(SameAgain /\ DistinctKeys(tlast.obj)) => store' = store]_vars

\* A merge of a dataset with distinct keys that replaced one existing row and
\* inserted another.
C3_Witness ==
    /\ Merged
    /\ DistinctKeys(tlast.obj)
    /\ \E t \in Rows : /\ tlast.before.rows[t] > 0
                        /\ KeyMatched(tlast.obj, t)
                        /\ tlast.obj[t] = 0
    /\ Inserted(tlast.before.rows, tlast.obj) # {}

NoPolicy == DeclaredPK = <<>> /\ DeclaredPC = <<>>

\* C4: with neither primary keys nor partition columns declared, a write leaves
\* exactly the written rows at the path and logs a warning, and a read that
\* follows it returns exactly those rows.
C4_FullOverwrite ==
    /\ []((NoPolicy /\ Wrote) =>
            /\ tlast.status = "ok"
            /\ tlast.mode = "overwrite"
            /\ store[TablePath] = [exists |-> TRUE, rows |-> tlast.obj]
            /\ \E i \in 1..Len(tctx.log) : tctx.log[i] = "warning")
    /\ [][(NoPolicy /\ Wrote /\ tlast'.op = "load_input")
            => (tlast'.status = "ok" /\ tlast'.result = tlast.obj)]_vars

\* Dataset B written over a table holding other rows A.
C4_Witness ==
    /\ NoPolicy
    /\ Wrote
    /\ tlast.before.exists
    /\ \E r \in Rows : tlast.before.rows[r] > 0 /\ tlast.obj[r] = 0
    /\ tlast.obj # EmptyBag
    /\ store[TablePath].rows = tlast.obj

(***************************************************************************)
(* Properties of two writers on one path.                                  *)
(***************************************************************************)
WriterDone(w) == rw[w].pc = "done" /\ rw[w].status # "TypeError"
BothWrote == Len(worder) = 2 /\ \A w \in Writers : WriterDone(w)

\* Every row of A is in the table, as it was or as the row of B that replaced it.
NoRowLost(A, B, after) ==
    /\ \A r \in Rows : A[r] > 0 =>
          \/ after[r] >= 1
          \/ \E s \in Rows : B[s] > 0 /\ KeyEq(s, r) /\ after[s] >= 1
    /\ Size(after) >= Size(A)

\* C8: with primary keys declared and no table at the path, two writers that
\* both saw no table both overwrite and the table holds the later writer's rows
\* only; a writer that starts after the other has written sees the table,
\* merges, and loses no row of the first.
C8_RaceWindow ==
    (BothWrote /\ DeclaredPK # <<>>) =>
        LET first == worder[1]
            second == worder[2]
        IN  /\ (\A w \in Writers : ~rw[w].is_delta) =>
                  /\ \A w \in Writers : rw[w].mode # "merge"
                  /\ store[TablePath].rows = rw[second].obj
            /\ rw[second].checkedAt = 1 =>
                  /\ rw[second].is_delta
                  /\ rw[second].mode = "merge"
                  /\ NoRowLost(rw[first].obj, rw[second].obj, store[TablePath].rows)

\* Both writers saw no table and the first writer's rows are gone.
C8_Witness ==
    /\ BothWrote
    /\ DeclaredPK # <<>>
    /\ \A w \in Writers : ~rw[w].is_delta
    /\ \E r \in Rows : rw[worder[1]].obj[r] > 0 /\ store[TablePath].rows[r] = 0
    /\ store[TablePath].rows = rw[worder[2]].obj

\* One writer after the other: the second merged into the first's table.
C8_SequentialWitness ==
    /\ BothWrote
    /\ DeclaredPK # <<>>
    /\ rw[worder[2]].checkedAt = 1
    /\ rw[worder[2]].mode = "merge"
    /\ rw[worder[1]].obj # EmptyBag
    /\ rw[worder[2]].obj # EmptyBag

(***************************************************************************)
(* Properties of _get_merge_predicates.                                    *)
(***************************************************************************)
\* C2: for a non-empty primary_keys list the predicate is, key by key and in
\* the order of the list, the comparison s.<k> = t.<k>, with " AND " between
\* consecutive comparisons; for an empty list a ValueError is raised and no
\* predicate is returned.
C2_MergePredicate ==
    predout.called =>
        IF Len(pkeys) = 0
        THEN predout.raised = "ValueError" /\ predout.value = <<>>
        ELSE /\ predout.raised = ""
             /\ Len(predout.value) = 6 * Len(pkeys) - 1
             /\ \A i \in 1..Len(pkeys) :
                   /\ SubSeq(predout.value, 6 * (i - 1) + 1, 6 * (i - 1) + 5)
                         = <<"s.", pkeys[i], " = ", "t.", pkeys[i]>>
                   /\ i < Len(pkeys) => predout.value[6 * i] = " AND "

\* The predicate of a list of three keys, two of them different.
C2_Witness ==
    /\ predout.called
    /\ Len(pkeys) = 3
    /\ pkeys[1] # pkeys[2]
    /\ predout.raised = ""
    /\ Len(predout.value) = 17

(***************************************************************************)
(* Properties of _get_directory_path.                                      *)
(***************************************************************************)
\* a is before b, or is b, in the order of Python strings.
LexLeq(a, b) ==
    \/ a = b
    \/ \E i \in 1..Len(b) :
          /\ \A j \in 1..(i - 1) : j <= Len(a) /\ a[j] = b[j]
          /\ \/ i = Len(a) + 1
             \/ i <= Len(a) /\ Ord(a[i]) < Ord(b[i])

WithoutTrailingSlash(segs) ==
    IF Len(segs) > 0 /\ segs[Len(segs)] = <<>> THEN SubSeq(segs, 1, Len(segs) - 1) ELSE segs

\* C7: for a non-empty partition scope the resolved directory is the base path,
\* then the segments of the asset key in order, then one last segment: the
\* greatest partition key with its hyphens replaced by underscores; an output
\* and an input context with the same key and scope resolve to the same
\* directory.
C7_DirectoryPath ==
    /\ \A side \in {"output", "input"} :
          (pdir[side].called /\ pctx.asset_partition_keys # {}) =>
              LET B == pctx.output_base_path
                  S == pctx.asset_key
                  P == pctx.asset_partition_keys
                  d == pdir[side].value
                  base == WithoutTrailingSlash(B.segs)
                  last == d.segs[Len(d.segs)]
              IN  /\ pdir[side].raised = ""
                  /\ d.scheme = B.scheme
                  /\ d.host = B.host
                  /\ Len(d.segs) = Len(base) + Len(S) + 1
                  /\ \A i \in 1..Len(base) : d.segs[i] = base[i]
                  /\ \A i \in 1..Len(S) : d.segs[Len(base) + i] = S[i]
                  /\ \E m \in P :
                        /\ \A k \in P : LexLeq(k, m)
                        /\ Len(last) = Len(m)
                        /\ \A i \in 1..Len(m) :
                              last[i] = IF m[i] = "-" THEN "_" ELSE m[i]
    /\ (pdir["output"].called /\ pdir["input"].called)
          => pdir["output"].value = pdir["input"].value

\* Both contexts resolved the directory a_ for the scope {"a-", "-a"} under a base
\* path that ends in a slash.
C7_Witness ==
    /\ pdir["output"].called
    /\ pdir["input"].called
    /\ pctx.asset_partition_keys = {<<"a", "-">>, <<"-", "a">>}
    /\ Len(pctx.asset_key) = 2
    /\ pctx.output_base_path.segs = << <<"l">>, <<>> >>
    /\ pdir["output"].value.segs[4] = <<"a", "_">>

(***************************************************************************)
(* Properties of the JSON/text manager.                                    *)
(***************************************************************************)
JsonWriteStep ==
    /\ jlast'.op = "handle_output"
    /\ jlast'.status = "ok"
    /\ <<fs, jlast, jctx>>' # <<fs, jlast, jctx>>

\* C5: a successful handle_output adds exactly one file to the resolved
\* directory, named by the minute of the clock with the .json extension, and
\* replaces or changes no file that was there: the directory holds one file more.
C5_OneNewFilePerWrite ==
    [][JsonWriteStep =>
        LET d == jlast'.dir IN
        /\ jlast'.name = Strftime(clock) \o JsonExt
        /\ jlast'.name \notin Entries(fs[d])
        /\ Entries(fs'[d]) = Entries(fs[d]) \cup {jlast'.name}
        /\ Cardinality(Entries(fs'[d])) = Cardinality(Entries(fs[d])) + 1
        /\ \A n \in Entries(fs[d]) : fs'[d].files[n] = fs[d].files[n]]_vars

IsJsonEntry(n) == Len(n) > Len(JsonExt) /\ EndsWith(n, JsonExt)
IsTxtEntry(n) == Len(n) > Len(TxtExt) /\ EndsWith(n, TxtExt)
JsonEntries(d) == {n \in Entries(d) : IsJsonEntry(n)}
TxtEntries(d) == {n \in Entries(d) : IsTxtEntry(n)}
OtherEntries(d) == Entries(d) \ (JsonEntries(d) \cup TxtEntries(d))
\* Entries named .json or .txt and nothing more: listed, yet without a suffix.
BareEntries(d) == {n \in Entries(d) : n \in {JsonExt, TxtExt}}
Occurrences(seq, v) == Cardinality({i \in 1..Len(seq) : seq[i] = v})
Warnings == Occurrences(jctx.log, "warning")

\* load_input ran on an existing directory with a .json or .txt entry, every
\* .json entry of which is JSON.
ReadDirectory ==
    /\ jlast.op = "load_input"
    /\ jlast.status \notin {"IndexError"}
    /\ fs[jlast.dir].exists
    /\ JsonEntries(fs[jlast.dir]) \cup TxtEntries(fs[jlast.dir]) # {}
    /\ \A n \in JsonEntries(fs[jlast.dir]) : JsonLoad(fs[jlast.dir].files[n].data).raised = ""

\* The result holds the parsed JSON of every .json entry and the text of every
\* .txt entry, once each, and nothing else.
OnePerEntry ==
    LET d == fs[jlast.dir] IN
    /\ jlast.status = "ok"
    /\ Len(jlast.result) = Cardinality(JsonEntries(d)) + Cardinality(TxtEntries(d))
    /\ \A i \in 1..Len(jlast.result) :
          Occurrences(jlast.result, jlast.result[i]) =
              Cardinality({n \in JsonEntries(d) :
                             JsonLoad(d.files[n].data).value = jlast.result[i]})
            + Cardinality({n \in TxtEntries(d) : PyStr(d.files[n].data) = jlast.result[i]})

XJson == <<"x">> \o JsonExt
YTxt == <<"y">> \o TxtExt
ZCsv == <<"z", ".", "c", "s", "v">>

\* C6 as stated: one element per .json and per .txt entry, and one warning for
\* every entry with another extension.
C6_WarningPerOtherEntry ==
    ReadDirectory =>
        /\ OnePerEntry
        /\ Warnings = Cardinality(OtherEntries(fs[jlast.dir]))

\* C6 amended: one element per .json and per .txt entry; an entry with another
\* extension is never listed, so it adds nothing and no warning is recorded for
\* it: the only warnings are for entries named just .json or .txt.  A directory
\* with x.json, y.txt and z.csv yields the two elements and no warning.
C6_OtherEntriesUnlisted ==
    ReadDirectory =>
        /\ OnePerEntry
        /\ Warnings = Cardinality(BareEntries(fs[jlast.dir]))
        /\ Entries(fs[jlast.dir]) = {XJson, YTxt, ZCsv} =>
              /\ Len(jlast.result) = 2
              /\ \E i, j \in 1..2 : /\ jlast.result[i] = PyDict("str", "v", "1")
                                     /\ jlast.result[j] = PyStr(<<"hello">>)
              /\ Warnings = 0

\* load_input returned two elements from a directory with x.json, y.txt, z.csv.
C6_Witness ==
    /\ ReadDirectory
    /\ Entries(fs[jlast.dir]) = {XJson, YTxt, ZCsv}
    /\ jlast.status = "ok"
    /\ Len(jlast.result) = 2

\* C9: a load_input that follows a successful handle_output with the same asset
\* key and partition scope succeeds and its result holds the payload written.
C9_RoundTrip ==
    [][(/\ jlast.op = "handle_output"
        /\ jlast.status = "ok"
        /\ jlast'.op = "load_input"
        /\ jlast'.scope = jlast.scope)
       => /\ jlast'.status = "ok"
          /\ \E i \in 1..Len(jlast'.result) : jlast'.result[i] = jlast.payload]_vars

\* The part of C10 about the table writer: a handle_output that raises the
\* TypeError leaves the store as it was and publishes no metadata.
C10_TableRejectNoEffect ==
    [][(tlast'.op = "handle_output" /\ tlast'.status = "TypeError")
       => (store' = store /\ ~tctx'.metadata.published /\ tctx'.log = <<>>)]_vars

\* C10: a handle_output that raises the TypeError, of the table writer or of
\* the JSON/text writer, creates and changes no directory, file or table and
\* publishes no metadata.
C10_RejectedWriteNoEffect ==
    [][/\ (jlast'.op = "handle_output" /\ jlast'.status = "TypeError")
          => (fs' = fs /\ ~jctx'.metadata.published)
       /\ (tlast'.op = "handle_output" /\ tlast'.status = "TypeError")
          => (store' = store /\ ~tctx'.metadata.published)]_vars

====
